---- MODULE Spec2Model ----
(***************************************************************************)
(* A model of src/utils/moondream_server.py: the module-level startup, the *)
(* four FastAPI handlers, and the streaming bridge stream_response that    *)
(* connects a blocking generation call running on a worker thread to the   *)
(* chunked HTTP response through a TextIteratorStreamer.                   *)
(***************************************************************************)
EXTENDS Integers, Sequences, FiniteSets, TLC

\* ------------------------------------------------------------------ bounds
MaxChunks == 2
MaxPathLen == 3
MaxTextLen == 3

\* Two requests in flight: the least number that can show one request
\* interfering with another.
Requests == {1, 2}

\* ------------------------------------------------------- characters, text
NL == "NL"
QUOTE == "QUOTE"
BSLASH == "BSLASH"

\* The characters a generated text fragment is made of in the model: two
\* ordinary letters and the three characters json.dumps must escape.
TextChars == {"a", "n", NL, QUOTE, BSLASH}

RECURSIVE SeqsUpTo(_, _)
SeqsUpTo(S, n) ==
    IF n = 0 THEN {<<>>}
    ELSE LET shorter == SeqsUpTo(S, n - 1)
         IN shorter \cup {Append(s, c) : s \in {t \in shorter : Len(t) = n - 1}, c \in S}

AllTexts == SeqsUpTo(TextChars, MaxTextLen)

Front(s) == SubSeq(s, 1, Len(s) - 1)
Last(s) == s[Len(s)]

\* Faulty variant: the text is pasted between the quotes as it is.
JsonEscapeCharRaw(c) == <<c>>

\* json.dumps of a str: the escapes of '"', '\' and newline.
JsonEscapeChar(c) ==
    CASE c = NL -> <<BSLASH, "n">>
      [] c = QUOTE -> <<BSLASH, QUOTE>>
      [] c = BSLASH -> <<BSLASH, BSLASH>>
      [] OTHER -> <<c>>

RECURSIVE JsonEscape(_)
JsonEscape(s) ==
    IF s = <<>> THEN <<>> ELSE JsonEscapeChar(Head(s)) \o JsonEscape(Tail(s))

ChunkPrefix == <<"{", QUOTE, "c", "h", "u", "n", "k", QUOTE, ":", " ", QUOTE>>
ChunkSuffix == <<QUOTE, "}">>

\* json.dumps({"chunk": text})
JsonDumpsChunk(text) == ChunkPrefix \o JsonEscape(text) \o ChunkSuffix

\* The value stream_response yields for one text: json.dumps({"chunk": text}) + "\n"
StreamLine(text) == JsonDumpsChunk(text) \o <<NL>>

\* ------------------------------------------------- the consumer's parser
\* What an ndjson consumer does with one line: json.loads of a JSON string
\* body (the inverse of the escapes; a raw quote or raw newline is an error).
RECURSIVE JsonUnescape(_)
JsonUnescape(s) ==
    IF s = <<>> THEN [ok |-> TRUE, val |-> <<>>]
    ELSE IF Head(s) = BSLASH
    THEN IF Len(s) >= 2 /\ s[2] \in {"n", QUOTE, BSLASH}
         THEN LET rest == JsonUnescape(Tail(Tail(s)))
                  c == IF s[2] = "n" THEN NL ELSE s[2]
              IN [ok |-> rest.ok, val |-> <<c>> \o rest.val]
         ELSE [ok |-> FALSE, val |-> <<>>]
    ELSE IF Head(s) \in {QUOTE, NL}
    THEN [ok |-> FALSE, val |-> <<>>]
    ELSE LET rest == JsonUnescape(Tail(s))
         IN [ok |-> rest.ok, val |-> <<Head(s)>> \o rest.val]

\* json.loads of a line without its newline, accepted when it is an object
\* with the single key "chunk" and a string value.
ParseChunkObject(l) ==
    LET np == Len(ChunkPrefix)
        ns == Len(ChunkSuffix)
    IN IF /\ Len(l) >= np + ns
          /\ SubSeq(l, 1, np) = ChunkPrefix
          /\ SubSeq(l, Len(l) - ns + 1, Len(l)) = ChunkSuffix
       THEN JsonUnescape(SubSeq(l, np + 1, Len(l) - ns))
       ELSE [ok |-> FALSE, val |-> <<>>]

\* A line of the stream as the consumer sees it: terminated by the only
\* newline in it, and the rest one {"chunk": ...} object.
WellFormedLine(l) ==
    /\ Len(l) >= 1
    /\ Last(l) = NL
    /\ \A i \in 1..(Len(l) - 1) : l[i] # NL
    /\ ParseChunkObject(Front(l)).ok

ChunkOf(l) == ParseChunkObject(Front(l)).val

\* ------------------------------------------------------------------ state
VARIABLES
    phase,       \* position of the module-level startup code
    osname,      \* os.name
    pythonpath,  \* os.environ.get('PYTHONPATH', '')
    paths,       \* pythonpath.split(path_sep)
    fs,          \* the directories that hold moondream-2b-int8.mf.gz
    loadOk,      \* whether from_pretrained succeeds
    req,         \* per request: the endpoint and the JSON body received
    pc,          \* per request: position of its handler / response
    loop,        \* the request whose handler runs on the event loop, 0 if none
    resp,        \* per request: HTTP status sent, 0 if none yet
    ran,         \* per request: whether moondream.encode_image was called
    client,      \* per request: whether the HTTP client is still connected
    worker,      \* per request: state of the Thread stream_response started
    streamerOf,  \* per request: the TextIteratorStreamer its generator made
    queue,       \* per streamer: its text_queue
    nstreamers,  \* TextIteratorStreamer objects constructed so far
    nthreads,    \* Thread objects started so far
    hand,        \* per request: the text get() returned that is not yet sent
    pushed,      \* per request: the texts its worker has put, in order
    delivered,   \* per request: the lines sent to the client, in order
    jtext,       \* a text handed to the generator's loop body
    jline        \* the line the loop body yielded for it

bootVars == <<phase, osname, pythonpath, paths, fs, loadOk>>
reqVars == <<req, pc, loop, resp, ran, client>>
bridgeVars == <<worker, streamerOf, queue, nstreamers, nthreads, hand, pushed, delivered>>
jsonVars == <<jtext, jline>>
vars == <<bootVars, reqVars, bridgeVars, jsonVars>>

\* ---------------------------------------------------------------- startup
PathChars == {"a", "b", ":", ";"}
PythonPaths == SeqsUpTo(PathChars, MaxPathLen)
\* Directory names that can hold the weight file; <<>> is the working directory.
Dirs == {<<>>, <<"a">>, <<"b">>}

\* str.split(sep) for a one-character separator: always at least one part.
RECURSIVE Split(_, _)
Split(s, sep) ==
    IF s = <<>> THEN << <<>> >>
    ELSE LET rest == Split(Tail(s), sep)
         IN IF Head(s) = sep
            THEN << <<>> >> \o rest
            ELSE << <<Head(s)>> \o Head(rest) >> \o Tail(rest)

\* path_sep = ';' if os.name == 'nt' else ':'
PathSep == IF osname = "nt" THEN ";" ELSE ":"

\* os.path.exists(os.path.join(paths[1], 'moondream-2b-int8.mf.gz'))
ModelFileExists == paths[2] \in fs

\* if not pythonpath: raise RuntimeError
ReadEnv ==
    /\ phase = "import"
    /\ phase' = IF pythonpath = <<>> THEN "crashed" ELSE "split"
    /\ UNCHANGED <<osname, pythonpath, paths, fs, loadOk, reqVars, bridgeVars, jsonVars>>

\* paths = pythonpath.split(path_sep); if len(paths) < 2: raise RuntimeError
SplitPaths ==
    /\ phase = "split"
    /\ paths' = Split(pythonpath, PathSep)
    /\ phase' = IF Len(paths') < 2 THEN "crashed" ELSE "locate"
    /\ UNCHANGED <<osname, pythonpath, fs, loadOk, reqVars, bridgeVars, jsonVars>>

\* Faulty variant: the weight file is not looked for before loading.
LocateModelUnchecked ==
    /\ phase = "locate"
    /\ phase' = "load"
    /\ UNCHANGED <<osname, pythonpath, paths, fs, loadOk, reqVars, bridgeVars, jsonVars>>

\* if not os.path.exists(model_path): raise RuntimeError
LocateModel ==
    /\ phase = "locate"
    /\ phase' = IF ModelFileExists THEN "load" ELSE "crashed"
    /\ UNCHANGED <<osname, pythonpath, paths, fs, loadOk, reqVars, bridgeVars, jsonVars>>

\* try: from_pretrained ... except: raise; then moondream.eval() and, under
\* __main__, uvicorn.run(app)
LoadModel ==
    /\ phase = "load"
    /\ phase' = IF loadOk THEN "serving" ELSE "crashed"
    /\ UNCHANGED <<osname, pythonpath, paths, fs, loadOk, reqVars, bridgeVars, jsonVars>>

\* --------------------------------------------------------------- requests
Endpoints == {"query", "caption", "query_stream", "caption_stream"}
StreamEndpoints == {"query_stream", "caption_stream"}
QuestionEndpoints == {"query", "query_stream"}

\* An image_url as image_url.split(',') sees it: its comma-separated parts,
\* each named by what it holds.  <<"b64img">> is a payload with no comma.
ImageUrls == {<<"b64img">>, <<"hdr", "b64img">>, <<"hdr", "b64junk">>, <<"hdr", "notb64">>}

\* A request body: not JSON at all, or a JSON object with some of the keys.
NotJson == [json |-> FALSE, keys |-> {}, image_url |-> <<"hdr", "b64img">>]
Bodies ==
    {NotJson} \cup
    {b \in [json : {TRUE}, keys : SUBSET {"image_url", "question"}, image_url : ImageUrls] :
        "image_url" \in b.keys \/ b.image_url = <<"hdr", "b64img">>}

ValidBody == [json |-> TRUE, keys |-> {"image_url", "question"}, image_url |-> <<"hdr", "b64img">>]

NoRequest == [ep |-> "none", body |-> NotJson]

\* process_base64_image: split(',')[1], b64decode, Image.open
ProcessBase64Image(url) ==
    IF Len(url) < 2 THEN "IndexError"
    ELSE IF url[2] = "notb64" THEN "binascii.Error"
    ELSE IF url[2] # "b64img" THEN "UnidentifiedImageError"
    ELSE "image"

\* The handler's statements before moondream.encode_image, in order: what the
\* first one that raises raises, or "ok".
HandlerPrefix(ep, body) ==
    IF ~body.json THEN "JSONDecodeError"
    ELSE IF "image_url" \notin body.keys THEN "KeyError"
    ELSE IF ProcessBase64Image(body.image_url) # "image"
    THEN ProcessBase64Image(body.image_url)
    ELSE IF ep \in QuestionEndpoints /\ "question" \notin body.keys THEN "KeyError"
    ELSE "ok"

\* uvicorn accepts a connection and FastAPI routes the request to its handler.
Arrive(r, ep, b) ==
    /\ phase = "serving"
    /\ pc[r] = "none"
    /\ \A q \in Requests : q < r => pc[q] # "none"
    /\ req' = [req EXCEPT ![r] = [ep |-> ep, body |-> b]]
    /\ pc' = [pc EXCEPT ![r] = "arrived"]
    /\ UNCHANGED <<bootVars, loop, resp, ran, client, bridgeVars, jsonVars>>

\* The async handler runs on the event loop up to moondream.encode_image; an
\* exception leaves the handler and the framework answers 500.
Handle(r) ==
    /\ pc[r] = "arrived"
    /\ loop = 0
    /\ IF HandlerPrefix(req[r].ep, req[r].body) = "ok"
       THEN /\ pc' = [pc EXCEPT ![r] = "encoding"]
            /\ loop' = r
            /\ ran' = [ran EXCEPT ![r] = TRUE]
            /\ UNCHANGED resp
       ELSE /\ pc' = [pc EXCEPT ![r] = "done"]
            /\ resp' = [resp EXCEPT ![r] = 500]
            /\ UNCHANGED <<loop, ran>>
    /\ UNCHANGED <<bootVars, req, client, bridgeVars, jsonVars>>

\* query / caption: answer_question runs in the handler and returns the text.
Answer(r) ==
    /\ pc[r] = "encoding"
    /\ req[r].ep \notin StreamEndpoints
    /\ pc' = [pc EXCEPT ![r] = "done"]
    /\ resp' = [resp EXCEPT ![r] = 200]
    /\ loop' = 0
    /\ UNCHANGED <<bootVars, req, ran, client, bridgeVars, jsonVars>>

\* query / caption: answer_question raises in the handler.
AnswerRaises(r) ==
    /\ pc[r] = "encoding"
    /\ req[r].ep \notin StreamEndpoints
    /\ pc' = [pc EXCEPT ![r] = "done"]
    /\ resp' = [resp EXCEPT ![r] = 500]
    /\ loop' = 0
    /\ UNCHANGED <<bootVars, req, ran, client, bridgeVars, jsonVars>>

\* Faulty variant: the handler drains stream_response itself, so the event loop
\* stays with this request while the stream is produced.
ReturnStreamingResponseInline(r) ==
    /\ pc[r] = "encoding"
    /\ req[r].ep \in StreamEndpoints
    /\ pc' = [pc EXCEPT ![r] = "unstarted"]
    /\ resp' = [resp EXCEPT ![r] = 200]
    /\ UNCHANGED <<bootVars, req, loop, ran, client, bridgeVars, jsonVars>>

\* query_stream / caption_stream: return StreamingResponse(stream_response(..)).
\* Calling the generator function runs none of its body; the handler returns
\* and the event loop is free.
ReturnStreamingResponse(r) ==
    /\ pc[r] = "encoding"
    /\ req[r].ep \in StreamEndpoints
    /\ pc' = [pc EXCEPT ![r] = "unstarted"]
    /\ resp' = [resp EXCEPT ![r] = 200]
    /\ loop' = 0
    /\ UNCHANGED <<bootVars, req, ran, client, bridgeVars, jsonVars>>

\* The HTTP client goes away while its stream is open.
Disconnect(r) ==
    /\ pc[r] \in {"unstarted", "waiting", "got"}
    /\ client[r] = "connected"
    /\ client' = [client EXCEPT ![r] = "gone"]
    /\ UNCHANGED <<bootVars, req, pc, loop, resp, ran, bridgeVars, jsonVars>>

\* ------------------------------------------------- the streaming bridge
\* One streamer object can be made per request.
StreamerIds == 1..Cardinality(Requests)

\* Faulty variant: one module-level streamer used by every request.
SharedStreamer == CHOOSE s \in StreamerIds : \A u \in StreamerIds : s <= u

\* streamer = TextIteratorStreamer(...): a new object on every call.
NewStreamer == nstreamers + 1

\* What the worker's generate call puts in text_queue: a text, or at the end
\* the stop signal.  `by` records the request whose embedding and prompt the
\* putting thread was started with.
TextItem(t, r) == [stop |-> FALSE, text |-> t, by |-> r]
StopItem(r) == [stop |-> TRUE, text |-> <<>>, by |-> r]

\* The text_queue of the streamer request r's generator made.
QueueOf(r) == queue[streamerOf[r]]

\* Faulty variant: the queue hands out its newest item first.
QueueTakeLifo(q) == [item |-> Last(q), rest |-> Front(q)]

\* `for text in streamer`: text_queue.get() takes the oldest item.
QueueTake(q) == [item |-> Head(q), rest |-> Tail(q)]

\* The first next() on the generator: its body runs to the first get.
\* streamer and thread are locals of this call; thread.start().
StartWorker(r) ==
    /\ pc[r] = "unstarted"
    /\ client[r] = "connected"
    /\ loop \in {0, r}
    /\ streamerOf' = [streamerOf EXCEPT ![r] = NewStreamer]
    /\ nstreamers' = nstreamers + 1
    /\ nthreads' = nthreads + 1
    /\ worker' = [worker EXCEPT ![r] = "running"]
    /\ pc' = [pc EXCEPT ![r] = "waiting"]
    /\ UNCHANGED <<bootVars, req, loop, resp, ran, client, queue, hand, pushed, delivered, jsonVars>>

\* The i-th text the generation of a request puts, a function of what the
\* thread was started with: the caller's question on /query/stream, the fixed
\* caption prompt on /caption/stream.  Texts next to each other differ.
GeneratedText(q, i) ==
    IF (q.ep = "query_stream") = (i % 2 = 1) THEN <<"a">> ELSE <<NL>>

\* Faulty variant: the worker stops producing once the client is gone.
WorkerPutCancellable(r) ==
    /\ worker[r] = "running"
    /\ client[r] = "connected"
    /\ Len(pushed[r]) < MaxChunks
    /\ LET t == GeneratedText(req[r], Len(pushed[r]) + 1)
       IN /\ queue' = [queue EXCEPT ![streamerOf[r]] = Append(@, TextItem(t, r))]
          /\ pushed' = [pushed EXCEPT ![r] = Append(@, t)]
    /\ UNCHANGED <<bootVars, reqVars, worker, streamerOf, nstreamers, nthreads, hand, delivered, jsonVars>>

\* The worker thread (moondream.answer_question with streamer=streamer) hands
\* one more text to its streamer; Queue.put on an unbounded queue.
WorkerPut(r) ==
    /\ worker[r] = "running"
    /\ Len(pushed[r]) < MaxChunks
    /\ LET t == GeneratedText(req[r], Len(pushed[r]) + 1)
       IN /\ queue' = [queue EXCEPT ![streamerOf[r]] = Append(@, TextItem(t, r))]
          /\ pushed' = [pushed EXCEPT ![r] = Append(@, t)]
    /\ UNCHANGED <<bootVars, reqVars, worker, streamerOf, nstreamers, nthreads, hand, delivered, jsonVars>>

\* Generation completes: streamer.end() puts the stop signal, the thread ends.
WorkerEnd(r) ==
    /\ worker[r] = "running"
    /\ queue' = [queue EXCEPT ![streamerOf[r]] = Append(@, StopItem(r))]
    /\ worker' = [worker EXCEPT ![r] = "finished"]
    /\ UNCHANGED <<bootVars, reqVars, streamerOf, nstreamers, nthreads, hand, pushed, delivered, jsonVars>>

\* Faulty variant: the thread's target ends the streamer when generation raises.
WorkerRaiseEnds(r) ==
    /\ worker[r] = "running"
    /\ queue' = [queue EXCEPT ![streamerOf[r]] = Append(@, StopItem(r))]
    /\ worker' = [worker EXCEPT ![r] = "raised"]
    /\ UNCHANGED <<bootVars, reqVars, streamerOf, nstreamers, nthreads, hand, pushed, delivered, jsonVars>>

\* answer_question raises in the worker thread: the exception ends the thread
\* (Thread has no handler for it here) and nothing is put in the queue.
WorkerRaise(r) ==
    /\ worker[r] = "running"
    /\ worker' = [worker EXCEPT ![r] = "raised"]
    /\ UNCHANGED <<bootVars, reqVars, streamerOf, queue, nstreamers, nthreads, hand, pushed, delivered, jsonVars>>

\* `for text in streamer`: the thread running the generator's next() returns
\* from text_queue.get() with the oldest item, connected client or not.  The
\* stop signal raises StopIteration and the response ends.
Get(r) ==
    /\ pc[r] = "waiting"
    /\ QueueOf(r) # <<>>
    /\ LET got == QueueTake(QueueOf(r))
       IN /\ queue' = [queue EXCEPT ![streamerOf[r]] = got.rest]
          /\ IF got.item.stop
             THEN /\ pc' = [pc EXCEPT ![r] = "closed"]
                  /\ UNCHANGED hand
             ELSE /\ pc' = [pc EXCEPT ![r] = "got"]
                  /\ hand' = [hand EXCEPT ![r] = <<got.item>>]
    /\ UNCHANGED <<bootVars, req, loop, resp, ran, client, worker, streamerOf, nstreamers, nthreads, pushed, delivered, jsonVars>>

\* yield json.dumps({"chunk": text}) + "\n": the line goes out to the client
\* and the response asks the generator for the next one.
Emit(r) ==
    /\ pc[r] = "got"
    /\ client[r] = "connected"
    /\ loop \in {0, r}
    /\ delivered' = [delivered EXCEPT ![r] =
            Append(@, [line |-> StreamLine(hand[r][1].text), by |-> hand[r][1].by])]
    /\ hand' = [hand EXCEPT ![r] = <<>>]
    /\ pc' = [pc EXCEPT ![r] = "waiting"]
    /\ UNCHANGED <<bootVars, req, loop, resp, ran, client, worker, streamerOf, queue, nstreamers, nthreads, pushed, jsonVars>>

\* The generator's loop body alone, on a text t the streamer hands over.
Yield(t) ==
    /\ jtext' = t
    /\ jline' = StreamLine(t)
    /\ UNCHANGED <<bootVars, reqVars, bridgeVars>>

\* ---------------------------------------------------------- specifications
InitRequests ==
    /\ req = [r \in Requests |-> NoRequest]
    /\ pc = [r \in Requests |-> "none"]
    /\ loop = 0
    /\ resp = [r \in Requests |-> 0]
    /\ ran = [r \in Requests |-> FALSE]
    /\ client = [r \in Requests |-> "connected"]
    /\ worker = [r \in Requests |-> "none"]
    /\ streamerOf = [r \in Requests |-> 0]
    /\ queue = [s \in StreamerIds |-> <<>>]
    /\ nstreamers = 0
    /\ nthreads = 0
    /\ hand = [r \in Requests |-> <<>>]
    /\ pushed = [r \in Requests |-> <<>>]
    /\ delivered = [r \in Requests |-> <<>>]

\* The process once the module has been imported and uvicorn serves.
InitServing ==
    /\ phase = "serving"
    /\ osname = "posix"
    /\ pythonpath = <<"a", ":", "b">>
    /\ paths = << <<"a">>, <<"b">> >>
    /\ fs = {<<"b">>}
    /\ loadOk = TRUE

Init ==
    /\ InitServing
    /\ InitRequests
    /\ jtext = <<>>
    /\ jline = <<>>

Next ==
    \E r \in Requests :
        \/ \E ep \in Endpoints, b \in Bodies : Arrive(r, ep, b)
        \/ Handle(r)
        \/ Answer(r)
        \/ AnswerRaises(r)
        \/ ReturnStreamingResponse(r)
        \/ Disconnect(r)
        \/ StartWorker(r)
        \/ WorkerPut(r)
        \/ WorkerEnd(r)
        \/ WorkerRaise(r)
        \/ Get(r)
        \/ Emit(r)

Spec == Init /\ [][Next]_vars

\* The process from the first line of the module, in any environment.
InitBoot ==
    /\ phase = "import"
    /\ osname \in {"posix", "nt"}
    /\ pythonpath \in PythonPaths
    /\ paths = <<>>
    /\ fs \in SUBSET Dirs
    /\ loadOk \in BOOLEAN
    /\ InitRequests
    /\ jtext = <<>>
    /\ jline = <<>>

NextBoot ==
    \/ ReadEnv
    \/ SplitPaths
    \/ LocateModel
    \/ LoadModel
    \/ \E r \in Requests, ep \in Endpoints, b \in {NotJson, ValidBody} : Arrive(r, ep, b)

SpecBoot == InitBoot /\ [][NextBoot]_vars

\* The generator's loop body on every text up to MaxTextLen characters.
InitJson == Init

NextJson == \E t \in AllTexts : Yield(t)

SpecJson == InitJson /\ [][NextJson]_vars

\* ------------------------------------------------------------ properties
IsPrefix(s, t) == Len(s) <= Len(t) /\ SubSeq(t, 1, Len(s)) = s

\* The chunk texts a client reads back from the lines it received.
DeliveredTexts(r) == [i \in 1..Len(delivered[r]) |-> ChunkOf(delivered[r][i].line)]

\* The texts waiting in the queue of request r's streamer.
IsText(item) == ~item.stop
QueuedTexts(r) ==
    LET q == SelectSeq(QueueOf(r), IsText)
    IN [i \in 1..Len(q) |-> q[i].text]

Started(r) == streamerOf[r] # 0

\* The text taken from the queue and not yet sent, if any.
HeldTexts(r) == [i \in 1..Len(hand[r]) |-> hand[r][i].text]

\* C1: for every streaming request, the chunks the client has received,
\* followed by the text the generator holds and the texts still waiting in
\* the streamer's queue, are exactly the texts the worker has put, in the
\* order it put them: the delivered chunks are a prefix of the generated
\* ones, none lost, doubled or reordered.
C1_FifoDelivery ==
    \A r \in Requests :
        IF Started(r)
        THEN /\ DeliveredTexts(r) \o HeldTexts(r) \o QueuedTexts(r) = pushed[r]
             /\ IsPrefix(DeliveredTexts(r), pushed[r])
        ELSE delivered[r] = <<>> /\ pushed[r] = <<>>

\* C1 witness: a stream that ended after delivering two different chunks.
C1_Witness ==
    \E r \in Requests :
        /\ pc[r] = "closed"
        /\ Len(delivered[r]) = 2
        /\ DeliveredTexts(r)[1] # DeliveredTexts(r)[2]

\* C3 (as claimed): a streaming client is never left waiting on the streamer
\* of a worker that has stopped: once the worker thread is over, either
\* something is still in the queue or the stream has ended.
C3_NeverStuckAfterWorkerStopped ==
    \A r \in Requests :
        ~ /\ worker[r] \in {"finished", "raised"}
          /\ pc[r] = "waiting"
          /\ client[r] = "connected"
          /\ QueueOf(r) = <<>>

\* C4: while a streaming request is being generated or waited for, the event
\* loop is not running that request: the generation is on the worker thread
\* and the response only waits for the next chunk.
C4_LoopNotHeldByStream ==
    \A r \in Requests :
        (worker[r] = "running" \/ pc[r] \in {"unstarted", "waiting", "got"}) => loop # r

\* C4 witness: request 1 has a chunk out while its worker still generates, and
\* the event loop is running the handler of request 2.
C4_Witness ==
    /\ worker[1] = "running"
    /\ Len(delivered[1]) >= 1
    /\ pc[2] = "encoding"
    /\ loop = 2

\* C5: every started streaming request has a streamer of its own and a thread
\* of its own (as many streamers and threads were made as requests started),
\* and everything in its queue and in its response was put by its own worker.
C5_RequestIsolation ==
    /\ \A r1, r2 \in Requests :
          (r1 # r2 /\ Started(r1) /\ Started(r2)) => streamerOf[r1] # streamerOf[r2]
    /\ nstreamers = Cardinality({r \in Requests : Started(r)})
    /\ nthreads = Cardinality({r \in Requests : worker[r] # "none"})
    /\ \A r \in Requests :
          /\ \A i \in 1..Len(delivered[r]) : delivered[r][i].by = r
          /\ \A i \in 1..Len(hand[r]) : hand[r][i].by = r
          /\ Started(r) => \A i \in 1..Len(QueueOf(r)) : QueueOf(r)[i].by = r

\* C5 witness: two streams being generated at once, each with a chunk out.
C5_Witness ==
    /\ worker[1] = "running" /\ worker[2] = "running"
    /\ Len(delivered[1]) >= 1 /\ Len(delivered[2]) >= 1
    /\ DeliveredTexts(1)[1] # DeliveredTexts(2)[1]

\* C6: every line the generator yields ends with the only newline in it, and
\* what precedes the newline parses as one JSON object with the single key
\* "chunk" whose value is the text the line was made from.
C6_LineIsOneChunkObject ==
    jline # <<>> =>
        /\ WellFormedLine(jline)
        /\ ChunkOf(jline) = jtext

\* C6 witness: a line made from a text holding a newline, a quote and a
\* backslash.
C6_Witness ==
    /\ jline # <<>>
    /\ {NL, QUOTE, BSLASH} \subseteq {jtext[i] : i \in 1..Len(jtext)}

\* The requests C7 calls invalid: a JSON body whose image_url is malformed, or
\* a body without "question" on /query or /query/stream.
MalformedRequest(q) ==
    /\ q.ep \in Endpoints
    /\ q.body.json
    /\ "image_url" \in q.body.keys
    /\ \/ ProcessBase64Image(q.body.image_url) # "image"
       \/ q.ep \in QuestionEndpoints /\ "question" \notin q.body.keys

\* C7 (as claimed): an invalid request that has been answered got a
\* client-error status, and no inference and no worker thread was run for it.
C7_InvalidGetsClientError ==
    \A r \in Requests :
        (MalformedRequest(req[r]) /\ pc[r] = "done") =>
            /\ resp[r] \in 400..499
            /\ ~ran[r]
            /\ worker[r] = "none"

\* What the startup code requires of the environment.
ConfigValid ==
    /\ pythonpath # <<>>
    /\ Len(Split(pythonpath, PathSep)) >= 2
    /\ Split(pythonpath, PathSep)[2] \in fs
    /\ loadOk

\* C8: the process serves, or has accepted a request, only when PYTHONPATH is
\* set, has two entries, the second entry's directory holds the weight file
\* and loading succeeded; with any of these missing it never serves and no
\* request is ever accepted.
C8_ServingOnlyWithValidConfig ==
    /\ (phase = "serving" \/ \E r \in Requests : pc[r] # "none") =>
          (phase = "serving" /\ ConfigValid)
    /\ phase = "crashed" => ~ConfigValid

\* C8 witness: a Windows-style path list that passed every check, serving a
\* request.
C8_Witness ==
    /\ phase = "serving"
    /\ osname = "nt"
    /\ pc[1] = "arrived"

\* C9: when the worker has raised, the stream has not ended and is not ended
\* by it (no stop signal is queued, the response stays open with its 200),
\* and the client holds only chunks the worker put before it raised.
C9_WorkerFailureNotSurfaced ==
    \A r \in Requests :
        worker[r] = "raised" =>
            /\ pc[r] \in {"waiting", "got"}
            /\ resp[r] = 200
            /\ \A i \in 1..Len(QueueOf(r)) : ~QueueOf(r)[i].stop
            /\ \A i \in 1..Len(delivered[r]) : WellFormedLine(delivered[r][i].line)
            /\ IsPrefix(DeliveredTexts(r), pushed[r])

\* C9 witness: the worker raised after one chunk, and the client has it.
C9_Witness ==
    \E r \in Requests :
        /\ worker[r] = "raised"
        /\ Len(pushed[r]) = 1
        /\ DeliveredTexts(r) = pushed[r]

\* C10: a running worker can always take its next step, whatever the client
\* and the queue are doing: it can put another text (up to the model's
\* MaxChunks) and it can end, also when the client is gone or nothing has
\* been taken from the queue.
C10_WorkerNeverWaitsForConsumer ==
    \A r \in Requests :
        worker[r] = "running" =>
            /\ ENABLED WorkerEnd(r)
            /\ Len(pushed[r]) < MaxChunks => ENABLED WorkerPut(r)

\* C10 witness: the client left before taking anything, and the worker still
\* ran to the end: every chunk and the stop signal sit in the queue.
C10_Witness ==
    \E r \in Requests :
        /\ client[r] = "gone"
        /\ worker[r] = "finished"
        /\ delivered[r] = <<>>
        /\ Len(QueueOf(r)) = MaxChunks + 1

====
